---- MODULE Spec2Model ----
(***************************************************************************)
(* The query pipeline of the documentation RAG service:                    *)
(*   api/routes/query.py        the /query endpoint                        *)
(*   services/query_service.py  QueryService.query, the orchestrator        *)
(*   workers/query/*.py         validator, hybrid searcher, reranker,       *)
(*                              filter, context, generator, trace logger    *)
(*   api/routes/trace.py        the /trace/{trace_id} endpoint              *)
(*                                                                          *)
(* Scores are the code's floats scaled by 100 (0.75 is 75).  A text is a    *)
(* sequence of characters; the five characters "TEMP_" of the placeholder   *)
(* that the orchestrator writes are kept as the one element "TEMP_".        *)
(***************************************************************************)
EXTENDS Integers, Sequences, FiniteSets, TLC

----------------------------------------------------------------------------
(* Program constants: EvidenceConfig defaults, scaled by 100 where float.  *)
min_score_default == 75
insufficient_threshold_default == 2
medium_threshold_default == 2
high_threshold_default == 3
max_sources_default == 5

(* HybridSearchConfig defaults, scaled by 10.                              *)
vector_weight_default == 7
keyword_weight_default == 3

(* Bounds of the model.                                                    *)
MaxCandidates == 3     \* sections hybrid search returns to one query
MaxRequested == 3      \* largest max_sources a request of Spec asks for
MaxAnswerUnits == 1    \* units of text the LLM returns in Spec
MaxRanked == 6         \* length of the ranked list in SpecFilter
MaxFilterRequested == 6 \* largest max_sources in SpecFilter
MaxThreshold == 3      \* largest configured threshold in SpecTier
MaxTierRanked == 4     \* length of the ranked list in SpecTier
MaxEvidence == 3       \* evidence items in SpecReconcile
MaxTextUnits == 2      \* units of answer text in SpecReconcile
MaxMergeSections == 3  \* sections the two sub-searches draw from in SpecMerge
MaxTexts == 4          \* texts handed to the reranker in SpecRerank
MaxQueries == 2        \* requests that reach the trace logger in SpecTrace
MaxWrites == 2         \* calls of DatabaseWriter.write in SpecStore
MaxCallers == 2        \* threads that call the rate limiter in SpecLimiter
MaxPassages == 3       \* passages through the rate limiter in SpecLimiter
MaxTime == 65          \* seconds on the clock in SpecLimiter
MaxContextSections == 2 \* sections of the corpus in SpecContext

VARIABLES
    config,            \* EvidenceFilter.config (settings.search.evidence)
    pc,                \* position of the request inside query()
    question,          \* QueryRequest.question ("": no request yet)
    stages,            \* the stages of query() entered so far, with outcome
    max_sources,       \* QueryRequest.max_sources
    search_results,    \* section ids, in the order hybrid search returned them
    ranked_sections,   \* [section, rerank_score], same order
    filtered_evidence, \* FilteredEvidence: [evidence, confidence]
    context,           \* citation labels of the context, in order
    answer,            \* GeneratedAnswer.text
    trace_id,          \* identity returned by TraceLogger.log (0: none)
    db,                \* committed rows: [traces, citations, answers]
    llm_calls,         \* invocations of AnswerGenerator.generate
    response,          \* what the endpoint returned (code 0: nothing yet)
    reranker_calls,    \* the text lists score_batch was called with
    rerank_results,    \* the provider's answer to the last rerank call
    hybrid,            \* _merge_results: [vector, keyword, merged]
    trace_detail,      \* what GET /trace/{id} returned last (code 0: nothing)
    queries,           \* requests received so far
    validator,         \* QueryValidator: [enabled, client, classification]
    provider_calls,    \* failed attempts of the provider call under way
    store,             \* documents, sections and images of the corpus
    write_result,      \* what DatabaseWriter.write returned last
    writes,            \* calls of DatabaseWriter.write so far
    limiter,           \* VoyageRateLimiter and its callers
    user_prompt        \* what _build_user_prompt puts around the context

vars == <<config, pc, question, stages, max_sources, search_results,
          ranked_sections, filtered_evidence, context, answer, trace_id, db,
          llm_calls, response, reranker_calls, rerank_results, hybrid,
          trace_detail, queries, validator, provider_calls, store,
          write_result, writes, limiter, user_prompt>>

\* What no stage of query() writes.
elsewhere ==
    <<hybrid, trace_detail, store, write_result, writes, limiter, user_prompt>>

----------------------------------------------------------------------------
(* Values.                                                                 *)

DefaultConfig ==
    [min_score |-> min_score_default,
     insufficient_threshold |-> insufficient_threshold_default,
     medium_threshold |-> medium_threshold_default,
     high_threshold |-> high_threshold_default,
     max_sources |-> max_sources_default]

\* Scores the reranker may give: 0 is also score_batch's default for a
\* missing index; 75 is exactly min_score.
RerankScores == {0, 75, 80, 90}

\* Scores around the quality gate, for the filter taken alone.
GateScores == {74, 75, 76}

Digits == <<"1", "2", "3", "4", "5", "6", "7", "8", "9">>


Min(a, b) == IF a <= b THEN a ELSE b

Max(a, b) == IF a >= b THEN a ELSE b

SetMax(S) == CHOOSE x \in S : \A y \in S : y <= x

\* f'{n}' of a citation number (one digit: at most max_sources_default).
Str(n) == <<Digits[n]>>

\* f'[{n}]'
Marker(n) == <<"[">> \o Str(n) \o <<"]">>

\* f'[TEMP_{n}]'
Placeholder(n) == <<"[", "TEMP_">> \o Str(n) \o <<"]">>

\* str.replace(old, new): every non-overlapping occurrence, left to right.
RECURSIVE Replace(_, _, _)
Replace(s, old, new) ==
    IF Len(s) < Len(old) THEN s
    ELSE IF SubSeq(s, 1, Len(old)) = old
         THEN new \o Replace(SubSeq(s, Len(old) + 1, Len(s)), old, new)
         ELSE <<Head(s)>> \o Replace(Tail(s), old, new)

\* The slice taken one element short.
SliceShort(s, m) ==
    IF m - 1 >= 0 THEN SubSeq(s, 1, Min(m - 1, Len(s)))
    ELSE SubSeq(s, 1, Max(Len(s) + m - 1, 0))

\* seq[:m] of Python.
Slice(s, m) ==
    IF m >= 0 THEN SubSeq(s, 1, Min(m, Len(s)))
    ELSE SubSeq(s, 1, Max(Len(s) + m, 0))

----------------------------------------------------------------------------
(* EvidenceFilter.                                                         *)

DetermineConfidenceStrict(num_sources) ==
    IF num_sources < config.insufficient_threshold THEN "insufficient"
    ELSE IF num_sources < config.medium_threshold THEN "medium"
    ELSE IF num_sources < config.high_threshold THEN "high"
    ELSE "very_high"

\* Every comparison inclusive.
DetermineConfidenceInclusive(num_sources) ==
    IF num_sources <= config.insufficient_threshold THEN "insufficient"
    ELSE IF num_sources <= config.medium_threshold THEN "medium"
    ELSE IF num_sources <= config.high_threshold THEN "high"
    ELSE "very_high"

DetermineConfidence(num_sources) ==
    IF num_sources <= config.insufficient_threshold THEN "insufficient"
    ELSE IF num_sources < config.medium_threshold THEN "medium"
    ELSE IF num_sources < config.high_threshold THEN "high"
    ELSE "very_high"

PassesGateStrict(section) == section.rerank_score > config.min_score

PassesGate(section) == section.rerank_score >= config.min_score

HighQuality(ranked) == SelectSeq(ranked, PassesGate)

NumberedFromZero(limited) ==
    [i \in 1..Len(limited) |->
        [section |-> limited[i].section,
         relevance_score |-> limited[i].rerank_score,
         citation_number |-> i - 1]]

Numbered(limited) ==
    [i \in 1..Len(limited) |->
        [section |-> limited[i].section,
         relevance_score |-> limited[i].rerank_score,
         citation_number |-> i]]

FilterAfterTruncation(ranked, m) ==
    LET high_quality == HighQuality(ranked)
        limited == Slice(high_quality, Min(m, config.max_sources))
    IN  [evidence |-> Numbered(limited),
         confidence |-> DetermineConfidence(Len(limited))]

\* The truncation that looks at the requested max_sources only.
FilterIgnoringConfigured(ranked, m) ==
    LET high_quality == HighQuality(ranked)
    IN  [evidence |-> Numbered(Slice(high_quality, m)),
         confidence |-> DetermineConfidence(Len(high_quality))]

Filter(ranked, m) ==
    LET high_quality == HighQuality(ranked)
        num_sources == Len(high_quality)
        confidence == DetermineConfidence(num_sources)
        limited == Slice(high_quality, Min(m, config.max_sources))
    IN  [evidence |-> Numbered(limited), confidence |-> confidence]

----------------------------------------------------------------------------
(* Citation reconciliation and response assembly of QueryService.query.    *)

\* list.insert of the stable descending sort: e goes after every element
\* whose score is at least e's.
InsertByRelevance(t, e) ==
    LET j == Cardinality({i \in 1..Len(t) :
                            t[i].relevance_score >= e.relevance_score})
    IN  SubSeq(t, 1, j) \o <<e>> \o SubSeq(t, j + 1, Len(t))

Unsorted(evidence) == evidence

\* sorted(evidence, key=relevance_score, reverse=True); the sort is stable.
RECURSIVE SortedEvidence(_)
SortedEvidence(evidence) ==
    IF evidence = <<>> THEN <<>>
    ELSE InsertByRelevance(
             SortedEvidence(SubSeq(evidence, 1, Len(evidence) - 1)),
             evidence[Len(evidence)])

\* {ev.citation_number: new_num + 1 for new_num, ev in enumerate(sorted)}
\* (a later entry of the comprehension overwrites an earlier one)
CitationMapping(sorted_evidence) ==
    [old \in {sorted_evidence[i].citation_number :
                 i \in 1..Len(sorted_evidence)} |->
        SetMax({i \in 1..Len(sorted_evidence) :
                   sorted_evidence[i].citation_number = old})]

\* for old, new in sorted(mapping.items(), reverse=True):
\*     text = text.replace(f'[{old}]', f'[TEMP_{new}]')
RECURSIVE ToPlaceholders(_, _, _)
ToPlaceholders(text, mapping, olds) ==
    IF olds = {} THEN text
    ELSE LET old == SetMax(olds)
         IN  ToPlaceholders(
                 Replace(text, Marker(old), Placeholder(mapping[old])),
                 mapping, olds \ {old})

\* for new in mapping.values():  (insertion order: the sorted positions)
\*     text = text.replace(f'[TEMP_{new}]', f'[{new}]')
RECURSIVE FromPlaceholders(_, _, _)
FromPlaceholders(text, mapping, sorted_evidence) ==
    IF sorted_evidence = <<>> THEN text
    ELSE LET new == mapping[Head(sorted_evidence).citation_number]
         IN  FromPlaceholders(Replace(text, Placeholder(new), Marker(new)),
                              mapping, Tail(sorted_evidence))

\* The same loop writing the final numbers at once, without placeholders.
RECURSIVE RenumberDirect(_, _, _)
RenumberDirect(text, mapping, olds) ==
    IF olds = {} THEN text
    ELSE LET old == SetMax(olds)
         IN  RenumberDirect(Replace(text, Marker(old), Marker(mapping[old])),
                            mapping, olds \ {old})

ReconcileDirect(text, evidence) ==
    LET mapping == CitationMapping(SortedEvidence(evidence))
    IN  RenumberDirect(text, mapping, DOMAIN mapping)

Reconcile(text, evidence) ==
    LET sorted_evidence == SortedEvidence(evidence)
        mapping == CitationMapping(sorted_evidence)
    IN  FromPlaceholders(ToPlaceholders(text, mapping, DOMAIN mapping),
                         mapping, sorted_evidence)

\* EvidenceItem(citation_number=new_num + 1, ...) for each sorted evidence
EvidenceItems(sorted_evidence) ==
    [i \in 1..Len(sorted_evidence) |->
        [citation_number |-> i,
         section |-> sorted_evidence[i].section,
         relevance_score |-> sorted_evidence[i].relevance_score]]

----------------------------------------------------------------------------
(* Inputs the environment supplies.                                        *)

\* What an answer text is built from: whole markers, whole placeholders
\* and single characters.  AnswerGenerator._cleanup_markdown and strip()
\* rewrite only white space, rules, quote marks and code fences: they
\* leave every text over these characters as it is.
TextUnits ==
    {Marker(n) : n \in 1..3} \cup {Placeholder(n) : n \in 1..3}
        \cup {<<c>> : c \in {"[", "]", "1"}}

RECURSIVE TextsUpTo(_)
TextsUpTo(n) ==
    IF n = 0 THEN {<<>>}
    ELSE LET shorter == TextsUpTo(n - 1)
         IN  shorter \cup {t \o u : t \in shorter, u \in TextUnits}

\* Ranked lists of at most n sections with scores drawn from S; section i
\* is the i-th candidate of hybrid search.
RankedOver(n, S) ==
    UNION {{[i \in 1..k |-> [section |-> i, rerank_score |-> f[i]]] :
               f \in [1..k -> S]} : k \in 0..n}

NoEvidence == [evidence |-> <<>>, confidence |-> "none"]

EmptyDb == [traces |-> {}, citations |-> {}, answers |-> {}]

NoResponse ==
    [code |-> 0, answer |-> <<>>, evidence |-> <<>>, confidence |-> "none",
     trace_id |-> 0]

\* The endpoint's reply to InsufficientEvidenceError: QueryResponse with
\* the exception's message as answer and trace_id "" (0 here).
InsufficientResponse(message) ==
    [code |-> 200, answer |-> <<message>>, evidence |-> <<>>,
     confidence |-> "insufficient", trace_id |-> 0]

\* HTTPException(status_code=500): no answer is returned.
ErrorResponse ==
    [code |-> 500, answer |-> <<>>, evidence |-> <<>>, confidence |-> "none",
     trace_id |-> 0]

----------------------------------------------------------------------------
(* HybridSearcher._merge_results.  Sub-search scores are scaled by 10, so  *)
(* a combined score is scaled by 100.                                      *)

\* 1 - cosine distance of the vector search; ts_rank of the keyword search.
VectorScores == {5, 10}

KeywordScores == {1, 10}

\* What one sub-search hands over: a score for each section it found.
SubSearchResults(S) ==
    UNION {[found -> S] : found \in SUBSET (1..MaxMergeSections)}

\* results.get(section_id, (None, 0.0))[1]
ScoreOrZero(results, section_id) ==
    IF section_id \in DOMAIN results THEN results[section_id] ELSE 0

\* The weights taken the other way round.
CombinedScoreSwapped(v, k) ==
    keyword_weight_default * v + vector_weight_default * k

\* vector_weight * vector_score + keyword_weight * keyword_score
CombinedScore(v, k) ==
    vector_weight_default * v + keyword_weight_default * k

SearchResult(vector_results, keyword_results, section_id) ==
    LET v == ScoreOrZero(vector_results, section_id)
        k == ScoreOrZero(keyword_results, section_id)
    IN  [section |-> section_id, vector_score |-> v, keyword_score |-> k,
         combined_score |-> CombinedScore(v, k)]

\* Orders in which Python may iterate over the set S.
Orders(S) ==
    {o \in [1..Cardinality(S) -> S] :
        \A i, j \in 1..Cardinality(S) : i # j => o[i] # o[j]}

InsertByCombined(sorted, r) ==
    LET before == Cardinality({i \in 1..Len(sorted) :
                       sorted[i].combined_score >= r.combined_score})
    IN  SubSeq(sorted, 1, before) \o <<r>> \o
            SubSeq(sorted, before + 1, Len(sorted))

\* merged.sort(key=lambda x: x.combined_score, reverse=True): stable.
RECURSIVE SortedResults(_)
SortedResults(merged) ==
    IF merged = <<>> THEN <<>>
    ELSE InsertByCombined(SortedResults(SubSeq(merged, 1, Len(merged) - 1)),
                          merged[Len(merged)])

\* The results of the vector search alone, left as they come.
MergeResultsVectorOnly(vector_results, keyword_results, order) ==
    LET kept == {i \in 1..Len(order) : order[i] \in DOMAIN vector_results}
        at(n) == CHOOSE i \in kept : Cardinality({j \in kept : j <= i}) = n
    IN  [n \in 1..Cardinality(kept) |->
            SearchResult(vector_results, keyword_results, order[at(n)])]

\* _merge_results, with the set of ids iterated in the given order.
MergeResults(vector_results, keyword_results, order) ==
    SortedResults([i \in 1..Len(order) |->
        SearchResult(vector_results, keyword_results, order[i])])

NoHybrid == [vector |-> <<>>, keyword |-> <<>>, merged |-> <<>>]

----------------------------------------------------------------------------
(* Reranker.score_batch.                                                   *)

\* Scores the provider computes.
ProviderScores == RerankScores \ {0}

\* results.results of the provider for n documents: index and score of the
\* documents it scored, each at most once, in any order.
ProviderResponses(n) ==
    UNION {{[j \in 1..k |-> [index |-> o[j], relevance_score |-> f[j]]] :
               o \in {p \in [1..k -> 0..(n - 1)] :
                         \A i, j \in 1..k : i # j => p[i] # p[j]},
               f \in [1..k -> ProviderScores]} : k \in 0..n}

\* score_map = {result.index: result.relevance_score for result in ...}
ScoreMap(results) ==
    [idx \in {results[j].index : j \in 1..Len(results)} |->
        LET last == SetMax({j \in 1..Len(results) : results[j].index = idx})
        IN  results[last].relevance_score]

\* The scores the provider returned, in the order it returned them.
ScoreBatchAsReturned(texts, results) ==
    [j \in 1..Len(results) |-> results[j].relevance_score]

\* [score_map.get(i, 0.0) for i in range(len(texts))]
ScoreBatch(texts, results) ==
    [i \in 1..Len(texts) |->
        IF (i - 1) \in DOMAIN ScoreMap(results)
        THEN ScoreMap(results)[i - 1] ELSE 0]

\* [s.content for s in search_results]: a section's content stands for
\* itself.
Contents(results) == results

\* The pairs ordered by score, best first.
RankedSectionsByScore(results, scores) ==
    LET n == Len(results)
        rank(i) == 1 + Cardinality({j \in 1..n :
                        scores[j] > scores[i] \/ (scores[j] = scores[i] /\ j < i)})
        at(r) == CHOOSE i \in 1..n : rank(i) = r
    IN  [r \in 1..n |->
            [section |-> results[at(r)], rerank_score |-> scores[at(r)]]]

\* [(result, score) for result, score in zip(search_results, scores)]
RankedSections(results, scores) ==
    [i \in 1..Min(Len(results), Len(scores)) |->
        [section |-> results[i], rerank_score |-> scores[i]]]

----------------------------------------------------------------------------
(* TraceLogger.                                                            *)

\* uuid4(): an identity no stored trace has.
NewTraceId == Cardinality(db.traces) + 1

\* The rows TraceLogger.log adds to the session before it commits.
TraceRows(id, filtered, text) ==
    [traces |-> {[trace_id |-> id, query_text |-> question,
                  confidence |-> filtered.confidence]},
     citations |->
        {[trace_id |-> id,
          section_id |-> filtered.evidence[i].section,
          citation_number |-> filtered.evidence[i].citation_number,
          relevance_score |-> filtered.evidence[i].relevance_score] :
            i \in 1..Len(filtered.evidence)},
     answers |-> {[trace_id |-> id, answer_text |-> text]}]

Commit(rows) ==
    [traces |-> db.traces \cup rows.traces,
     citations |-> db.citations \cup rows.citations,
     answers |-> db.answers \cup rows.answers]

----------------------------------------------------------------------------
(* GET /trace/{trace_id}.                                                  *)

NoTraceDetail ==
    [code |-> 0, trace_id |-> 0, query_text |-> "", answer_text |-> <<>>,
     citations |-> {}, confidence |-> "none", num_citations |-> 0]

\* HTTPException(status_code=404)
TraceNotFound(id) == [NoTraceDetail EXCEPT !.code = 404, !.trace_id = id]

\* Whatever the identity, the first trace stored.
TraceDetailAny(id) ==
    IF db.traces = {} THEN TraceNotFound(id)
    ELSE LET trace == CHOOSE t \in db.traces :
                          \A u \in db.traces : t.trace_id <= u.trace_id
             cited == {c \in db.citations : c.trace_id = trace.trace_id}
             written == {a \in db.answers : a.trace_id = trace.trace_id}
         IN  [code |-> 200,
              trace_id |-> id,
              query_text |-> trace.query_text,
              answer_text |-> IF written = {} THEN <<>>
                              ELSE (CHOOSE a \in written : TRUE).answer_text,
              citations |-> {[citation_number |-> c.citation_number,
                              section_id |-> c.section_id,
                              relevance_score |-> c.relevance_score] :
                                c \in cited},
              confidence |-> trace.confidence,
              num_citations |-> Cardinality(cited)]

\* get_trace: the trace of that identity with its citations and answer.
TraceDetail(id) ==
    IF ~ \E t \in db.traces : t.trace_id = id THEN TraceNotFound(id)
    ELSE LET trace == CHOOSE t \in db.traces : t.trace_id = id
             cited == {c \in db.citations : c.trace_id = id}
             written == {a \in db.answers : a.trace_id = id}
         IN  [code |-> 200,
              trace_id |-> id,
              query_text |-> trace.query_text,
              answer_text |-> IF written = {} THEN <<>>
                              ELSE (CHOOSE a \in written : TRUE).answer_text,
              citations |-> {[citation_number |-> c.citation_number,
                              section_id |-> c.section_id,
                              relevance_score |-> c.relevance_score] :
                                c \in cited},
              confidence |-> trace.confidence,
              num_citations |-> Cardinality(cited)]

----------------------------------------------------------------------------
(* The corpus and DatabaseWriter.                                          *)

FilePaths == {"a.md", "b.md"}

\* Versions of the content of a file.
Versions == {1, 2}

\* One line of text that tells the version it belongs to.
VersionLine(h) == <<"v", IF h = 0 THEN "0" ELSE Digits[h]>>

\* MarkdownParser.parse of the file at path holding version h of its
\* content: the sha256 of the content is written h, the content parses
\* into h sections, and the first section has an image.
DocumentData(path, h) ==
    [file_path |-> path,
     content_hash |-> h,
     sections |-> [i \in 1..h |->
                      [order |-> i, content |-> <<VersionLine(h)>>,
                       has_images |-> i = 1]]]

\* A corpus of one document with k sections, numbered as hybrid search
\* returns them.
Corpus(k) ==
    [documents |-> {[doc_id |-> 1, file_path |-> "a.md", content_hash |-> 0]},
     sections |-> {[section_id |-> i, doc_id |-> 1, section_order |-> i,
                    content |-> <<VersionLine(0)>>, has_images |-> FALSE] :
                      i \in 1..k},
     images |-> {},
     next_doc |-> 2,
     next_section |-> k + 1]

StoredSectionIds == {s.section_id : s \in store.sections}

NoWriteResult ==
    [status |-> "none", file_path |-> "", content_hash |-> 0,
     updated |-> 0, added |-> 0, deleted |-> 0]

WriteResult(updated, added, deleted) ==
    [NoWriteResult EXCEPT !.status = "ok", !.updated = updated,
                          !.added = added, !.deleted = deleted]

\* The flush raises IntegrityError: nothing is committed.
WriteError == [NoWriteResult EXCEPT !.status = "error"]

\* DocumentSectionModel rows of the document's sections; gen_random_uuid()
\* gives identities from first on.
SectionRows(doc_id, document, first) ==
    {[section_id |-> first + i - 1, doc_id |-> doc_id,
      section_order |-> document.sections[i].order,
      content |-> document.sections[i].content,
      has_images |-> document.sections[i].has_images] :
        i \in 1..Len(document.sections)}

\* _add_images: one row for the image of a section that has one.
ImageRows(document, first) ==
    {[section_id |-> first + i - 1, image_path |-> "img"] :
        i \in {j \in 1..Len(document.sections) :
                  document.sections[j].has_images}}

CreateDocument(document) ==
    [store |->
        [documents |-> store.documents \cup
            {[doc_id |-> store.next_doc, file_path |-> document.file_path,
              content_hash |-> document.content_hash]},
         sections |-> store.sections \cup
            SectionRows(store.next_doc, document, store.next_section),
         images |-> store.images \cup ImageRows(document, store.next_section),
         next_doc |-> store.next_doc + 1,
         next_section |-> store.next_section + Len(document.sections)],
     result |-> WriteResult(0, Len(document.sections), 0)]

\* trace_citations.section_id references document_sections without an
\* ON DELETE rule: the delete of a cited section is refused.
Cited(sections) ==
    \E c \in db.citations : c.section_id \in {s.section_id : s \in sections}

UpdateDocument(existing_doc, document) ==
    LET old_sections == {s \in store.sections : s.doc_id = existing_doc.doc_id}
        old_ids == {s.section_id : s \in old_sections}
    IN  IF Cited(old_sections)
        THEN [store |-> store, result |-> WriteError]
        ELSE [store |->
                 [documents |-> (store.documents \ {existing_doc}) \cup
                     {[existing_doc EXCEPT
                          !.content_hash = document.content_hash]},
                  sections |-> (store.sections \ old_sections) \cup
                     SectionRows(existing_doc.doc_id, document,
                                 store.next_section),
                  images |->
                     {g \in store.images : g.section_id \notin old_ids} \cup
                         ImageRows(document, store.next_section),
                  next_doc |-> store.next_doc,
                  next_section |->
                      store.next_section + Len(document.sections)],
              result |-> WriteResult(Len(document.sections), 0,
                                     Cardinality(old_sections))]

\* The stored document rewritten whether its content changed or not.
WriteOutcomeRewrite(document) ==
    LET existing == {d \in store.documents :
                        d.file_path = document.file_path}
    IN  IF existing = {} THEN CreateDocument(document)
        ELSE UpdateDocument(CHOOSE d \in existing : TRUE, document)

\* DatabaseWriter.write up to its commit.
WriteOutcome(document) ==
    LET existing == {d \in store.documents :
                        d.file_path = document.file_path}
    IN  IF existing = {} THEN CreateDocument(document)
        ELSE LET existing_doc == CHOOSE d \in existing : TRUE
             IN  IF existing_doc.content_hash # document.content_hash
                 THEN UpdateDocument(existing_doc, document)
                 ELSE [store |-> store, result |-> WriteResult(0, 0, 0)]

----------------------------------------------------------------------------
(* Values of the providers' state before anything is called.               *)

\* QueryValidator with validation enabled and its client initialised; no
\* classification asked for yet.
DefaultValidator ==
    [enabled |-> TRUE, client |-> TRUE, reply |-> "", classification |-> ""]

\* QueryValidator.__init__: disabled (no client is made), enabled without
\* a client (no API key, or no anthropic package), enabled with a client.
ValidatorConfigs ==
    {[DefaultValidator EXCEPT !.enabled = FALSE, !.client = FALSE],
     [DefaultValidator EXCEPT !.client = FALSE],
     DefaultValidator}

\* What messages.create does: it raises ("error") or the model replies.
ClassifierReplies == {"error", "IN-SCOPE", "OUT-OF-SCOPE", "out of scope", "yes"}

\* str.strip().upper() of the replies.
Upper(reply) ==
    CASE reply = "out of scope" -> "OUT OF SCOPE"
      [] reply = "yes" -> "YES"
      [] OTHER -> reply

\* The classifier failing closed.
ClassifyQueryFailsClosed(reply) ==
    IF reply = "error" THEN "OUT-OF-SCOPE"
    ELSE IF Upper(reply) \in {"OUT-OF-SCOPE", "OUT OF SCOPE"}
         THEN "OUT-OF-SCOPE"
         ELSE "IN-SCOPE"

\* _classify_query: any exception gives IN-SCOPE.
ClassifyQuery(reply) ==
    IF reply = "error" THEN "IN-SCOPE"
    ELSE IF Upper(reply) \in {"OUT-OF-SCOPE", "OUT OF SCOPE"}
         THEN "OUT-OF-SCOPE"
         ELSE "IN-SCOPE"

\* validate(query) when messages.create would do as reply says: the
\* validator afterwards, with what it asked and concluded, and whether
\* InsufficientEvidenceError is raised.
Validate(reply) ==
    IF ~validator.enabled THEN [validator |-> validator, raises |-> FALSE]
    ELSE IF ~validator.client THEN [validator |-> validator, raises |-> FALSE]
    ELSE LET classification == ClassifyQuery(reply)
         IN  [validator |-> [validator EXCEPT
                                !.reply = reply,
                                !.classification = classification],
              raises |-> classification = "OUT-OF-SCOPE"]

NoProviderCalls == [failed |-> 0, provider |-> ""]

\* stop_after_attempt of the retry decorators.
voyage_attempts == 5
openai_attempts == 3
anthropic_attempts == 3

EmbeddingProviders == {"voyage", "openai"}
LLMProviders == {"anthropic", "groq"}
RerankProviders == {"cohere"}

\* Attempts that a call of the provider makes before its exception reaches
\* the pipeline: _generate_groq and the reranker's score_batch carry no
\* retry decorator.
Attempts(provider) ==
    CASE provider = "voyage" -> voyage_attempts
      [] provider = "openai" -> openai_attempts
      [] provider = "anthropic" -> anthropic_attempts
      [] OTHER -> 1

\* The configured provider among providers fails once more: the counts of
\* the call under way after a failure that is retried (last = FALSE) and
\* after the one that is re-raised (last = TRUE).
FailedAttempt(providers, last) ==
    {[failed |-> provider_calls.failed + 1, provider |-> p] :
        p \in {q \in providers :
                  /\ provider_calls.failed = 0 \/ provider_calls.provider = q
                  /\ (provider_calls.failed + 1 = Attempts(q)) = last
                  /\ provider_calls.failed + 1 <= Attempts(q)}}

----------------------------------------------------------------------------
(* VoyageRateLimiter, the one instance of the EmbedderProvider singleton.  *)

calls_per_minute == 3
SecondsPerMinute == 60

min_interval == SecondsPerMinute \div calls_per_minute

\* Threads that call wait_if_needed.
Callers == 1..MaxCallers

Outside == [at |-> "outside", seen |-> 0, wake |-> 0]

\* The limiter after __init__, the clock time.time() reads (seconds), the
\* place of each caller in wait_if_needed, and the times at which callers
\* returned from it.
NewLimiter ==
    [last_called |-> 0, now |-> 1, callers |-> [c \in Callers |-> Outside],
     passages |-> <<>>]

\* elapsed and wait_time are computed and the condition of the if is
\* decided from one reading of last_called.
Decide(last_called, now) ==
    LET elapsed == now - last_called
        wait_time == min_interval - elapsed
    IN  IF wait_time > 0 /\ last_called > 0
        THEN [at |-> "sleep", seen |-> last_called, wake |-> now + wait_time]
        ELSE [at |-> "stamp", seen |-> last_called, wake |-> 0]

----------------------------------------------------------------------------
(* ContextBuilder.build and AnswerGenerator._build_user_prompt, the        *)
(* context taken as its lines.                                             *)

NoUserPrompt == [context |-> <<>>, question |-> "", max_source |-> 0]

\* Contents a section may have, as lines: plain text, a line that begins
\* with a bracketed number, a line that holds one further on, and a
\* bracketed number on a line of its own after the first.
SectionContents ==
    {<<<<"t">>>>,
     <<Marker(7) \o <<"t">>>>,
     <<<<"t">> \o Marker(7)>>,
     <<<<"t">>, Marker(7)>>}

\* A corpus of one document whose section i has the content contents[i];
\* its first section has an image.
CorpusOf(contents) ==
    [Corpus(Len(contents)) EXCEPT
        !.sections = {[section_id |-> i, doc_id |-> 1, section_order |-> i,
                       content |-> contents[i], has_images |-> i = 1] :
                         i \in 1..Len(contents)},
        !.images = {[section_id |-> i, image_path |-> "img"] :
                       i \in {j \in 1..Len(contents) : j = 1}}]

\* Evidence.section as hybrid search loaded it.
SectionOf(id) == CHOOSE s \in store.sections : s.section_id = id

\* _get_image_descriptions: one line per image of the section.
RECURSIVE DescriptionLines(_)
DescriptionLines(images) ==
    IF images = {} THEN <<>>
    ELSE LET g == CHOOSE x \in images : TRUE
         IN  <<<<"- ", "description">>>> \o DescriptionLines(images \ {g})

\* The lines that one evidence item gives to "\n".join(context_parts).
EvidenceLines(ev) ==
    LET section == SectionOf(ev.section)
        images == IF section.has_images
                  THEN DescriptionLines({g \in store.images :
                                            g.section_id = ev.section})
                  ELSE <<>>
    IN  <<Marker(ev.citation_number), <<"Document: ", "title">>, <<>>>>
        \o (IF images # <<>>
            THEN <<<<>>, <<"[", "Images in this section", "]">>>>
                     \o images \o <<<<>>>>
            ELSE <<>>)
        \o <<<<"Content:">>>> \o section.content \o <<<<>>>>
        \o <<<<"-">>, <<>>>>

\* ContextBuilder.build
RECURSIVE Build(_)
Build(evidence) ==
    IF evidence = <<>> THEN <<>>
    ELSE EvidenceLines(Head(evidence)) \o Build(Tail(evidence))

IsDigit(u) == u = "0" \/ \E d \in 1..Len(Digits) : Digits[d] = u

\* \d+ at the head of s
RECURSIVE LeadingDigits(_)
LeadingDigits(s) ==
    IF s # <<>> /\ IsDigit(Head(s))
    THEN <<Head(s)>> \o LeadingDigits(Tail(s))
    ELSE <<>>

\* int(n)
RECURSIVE ToInt(_)
ToInt(ds) ==
    IF ds = <<>> THEN 0
    ELSE LET u == ds[Len(ds)]
             value == IF u = "0" THEN 0
                      ELSE CHOOSE d \in 1..Len(Digits) : Digits[d] = u
         IN  ToInt(SubSeq(ds, 1, Len(ds) - 1)) * 10 + value

\* The group of ^\[(\d+)\] on one line, if the line matches.
LineMatch(line) ==
    LET ds == IF line # <<>> /\ Head(line) = "["
              THEN LeadingDigits(Tail(line))
              ELSE <<>>
    IN  IF ds # <<>> /\ Len(line) >= Len(ds) + 2 /\ line[Len(ds) + 2] = "]"
        THEN <<ToInt(ds)>>
        ELSE <<>>

\* re.findall(r'^\[(\d+)\]', context, re.MULTILINE), as numbers.
RECURSIVE SourceNumbers(_)
SourceNumbers(lines) ==
    IF lines = <<>> THEN <<>>
    ELSE LineMatch(Head(lines)) \o SourceNumbers(Tail(lines))

MaxSource(lines) ==
    LET source_numbers == SourceNumbers(lines)
    IN  IF source_numbers # <<>>
        THEN SetMax({source_numbers[i] : i \in 1..Len(source_numbers)})
        ELSE 0

\* _build_user_prompt: the context, the question and the hint "you have
\* {max_source} sources available".
BuildUserPrompt(q, lines) ==
    [context |-> lines, question |-> q, max_source |-> MaxSource(lines)]

----------------------------------------------------------------------------
(* The request, one stage of QueryService.query per action.  An exception  *)
(* a stage raises reaches the endpoint's handlers in the same step.        *)

Questions == {"q1", "q2"}

\* The stages of query(), in the order of its statements.
StageOrder ==
    <<"validate", "search", "rerank", "filter", "context", "generate",
      "trace", "assemble">>

Stage(name, outcome) == [stage |-> name, outcome |-> outcome]

\* The first n stages, each returned without an exception.
Completed(n) == [i \in 1..n |-> Stage(StageOrder[i], "ok")]

Init ==
    /\ config = DefaultConfig
    /\ pc = "idle"
    /\ question = ""
    /\ stages = <<>>
    /\ max_sources = 0
    /\ search_results = <<>>
    /\ ranked_sections = <<>>
    /\ filtered_evidence = NoEvidence
    /\ context = <<>>
    /\ answer = <<>>
    /\ trace_id = 0
    /\ db = EmptyDb
    /\ llm_calls = 0
    /\ response = NoResponse
    /\ reranker_calls = <<>>
    /\ rerank_results = <<>>
    /\ hybrid = NoHybrid
    /\ trace_detail = NoTraceDetail
    /\ queries = 0
    /\ validator = DefaultValidator
    /\ provider_calls = NoProviderCalls
    /\ store = Corpus(MaxCandidates)
    /\ write_result = NoWriteResult
    /\ writes = 0
    /\ limiter = NewLimiter
    /\ user_prompt = NoUserPrompt

\* POST /query with a valid QueryRequest (max_sources >= 1).
Receive ==
    /\ pc = "idle"
    /\ \E m \in 1..MaxRequested : max_sources' = m
    /\ \E q \in Questions : question' = q
    /\ queries' = queries + 1
    /\ pc' = "validate"
    /\ UNCHANGED <<config, stages, search_results, ranked_sections,
                   filtered_evidence, context, answer, trace_id, db,
                   llm_calls, response, reranker_calls, rerank_results,
                   elsewhere, validator,
                   provider_calls>>

\* validator.validate returns: the query goes on.
ValidateInScope ==
    /\ pc = "validate"
    /\ \E reply \in ClassifierReplies :
          /\ ~Validate(reply).raises
          /\ validator' = Validate(reply).validator
    /\ stages' = Append(stages, Stage("validate", "ok"))
    /\ pc' = "search"
    /\ UNCHANGED <<config, question, max_sources, search_results,
                   ranked_sections, filtered_evidence, context, answer,
                   trace_id, db, llm_calls, response, reranker_calls,
                   rerank_results, elsewhere, provider_calls, queries>>

\* The out-of-scope verdict let through.
ValidateOutOfScopeIgnored ==
    /\ pc = "validate"
    /\ stages' = Append(stages, Stage("validate", "out_of_scope"))
    /\ pc' = "search"
    /\ UNCHANGED <<config, question, max_sources, search_results,
                   ranked_sections, filtered_evidence, context, answer,
                   trace_id, db, llm_calls, response, reranker_calls,
                   rerank_results, elsewhere, validator,
                   provider_calls, queries>>

\* validator.validate raises InsufficientEvidenceError.
ValidateOutOfScope ==
    /\ pc = "validate"
    /\ \E reply \in ClassifierReplies :
          /\ Validate(reply).raises
          /\ validator' = Validate(reply).validator
    /\ stages' = Append(stages, Stage("validate", "out_of_scope"))
    /\ response' = InsufficientResponse("out_of_scope")
    /\ pc' = "done"
    /\ UNCHANGED <<config, question, max_sources, search_results,
                   ranked_sections, filtered_evidence, context, answer,
                   trace_id, db, llm_calls, reranker_calls, rerank_results,
                   elsewhere, provider_calls, queries>>

\* searcher.search returns its candidates, best combined score first.
HybridSearch ==
    /\ pc = "search"
    /\ \E n \in 0..MaxCandidates : search_results' = [i \in 1..n |-> i]
    /\ stages' = Append(stages, Stage("search", "ok"))
    /\ pc' = "rerank"
    /\ provider_calls' = NoProviderCalls
    /\ UNCHANGED <<config, question, max_sources, ranked_sections,
                   filtered_evidence, context, answer, trace_id, db,
                   llm_calls, response, reranker_calls, rerank_results,
                   elsewhere, validator, queries>>

\* An attempt of the embedding call fails and the decorator tries again.
EmbedAttemptFails ==
    /\ pc = "search"
    /\ \E calls \in FailedAttempt(EmbeddingProviders, FALSE) :
          provider_calls' = calls
    /\ UNCHANGED <<config, pc, question, stages, max_sources, search_results,
                   ranked_sections, filtered_evidence, context, answer,
                   trace_id, db, llm_calls, response, reranker_calls,
                   rerank_results, elsewhere, validator, queries>>

\* The embedder raises after its last attempt, or the storage raises.
HybridSearchFails ==
    /\ pc = "search"
    /\ stages' = Append(stages, Stage("search", "error"))
    /\ response' = ErrorResponse
    /\ pc' = "done"
    /\ \E calls \in FailedAttempt(EmbeddingProviders, TRUE)
                        \cup {NoProviderCalls} :
          provider_calls' = calls
    /\ UNCHANGED <<config, question, max_sources, search_results,
                   ranked_sections, filtered_evidence, context, answer,
                   trace_id, db, llm_calls, reranker_calls, rerank_results,
                   elsewhere, validator, queries>>

\* reranker.score_batch on the contents of all candidates: one score per
\* candidate, zipped in order.
Rerank ==
    /\ pc = "rerank"
    /\ reranker_calls' = Append(reranker_calls, Contents(search_results))
    /\ \E results \in ProviderResponses(Len(search_results)) :
          /\ rerank_results' = results
          /\ ranked_sections' =
                RankedSections(search_results,
                               ScoreBatch(Contents(search_results), results))
    /\ stages' = Append(stages, Stage("rerank", "ok"))
    /\ pc' = "filter"
    /\ provider_calls' = NoProviderCalls
    /\ UNCHANGED <<config, question, max_sources, search_results,
                   filtered_evidence, context, answer, trace_id, db,
                   llm_calls, response, elsewhere, validator, queries>>

\* The provider raises: score_batch raises ModelError.
RerankFails ==
    /\ pc = "rerank"
    /\ reranker_calls' = Append(reranker_calls, Contents(search_results))
    /\ stages' = Append(stages, Stage("rerank", "error"))
    /\ response' = ErrorResponse
    /\ pc' = "done"
    /\ \E calls \in FailedAttempt(RerankProviders, TRUE) :
          provider_calls' = calls
    /\ UNCHANGED <<config, question, max_sources, search_results,
                   ranked_sections, filtered_evidence, context, answer,
                   trace_id, db, llm_calls, rerank_results, elsewhere, validator,
                   queries>>

\* filter.filter(ranked_sections, max_sources)
FilterEvidence ==
    /\ pc = "filter"
    /\ filtered_evidence' = Filter(ranked_sections, max_sources)
    /\ rerank_results' = <<>>
    /\ stages' = Append(stages, Stage("filter", "ok"))
    /\ pc' = "check"
    /\ UNCHANGED <<config, question, max_sources, search_results,
                   ranked_sections, context, answer, trace_id, db,
                   llm_calls, response, reranker_calls, elsewhere, validator,
                   provider_calls, queries>>

\* confidence == "insufficient": raise InsufficientEvidenceError.
InsufficientEvidence ==
    /\ pc = "check"
    /\ filtered_evidence.confidence = "insufficient"
    /\ response' = InsufficientResponse("insufficient_evidence")
    /\ pc' = "done"
    /\ UNCHANGED <<config, question, stages, max_sources, search_results,
                   ranked_sections, filtered_evidence, context, answer,
                   trace_id, db, llm_calls, reranker_calls, rerank_results,
                   elsewhere, validator,
                   provider_calls, queries>>

\* The context built whatever the confidence is.
BuildContextUnchecked ==
    /\ pc = "check"
    /\ context' = [i \in 1..Len(filtered_evidence.evidence) |->
                      filtered_evidence.evidence[i].citation_number]
    /\ stages' = Append(stages, Stage("context", "ok"))
    /\ pc' = "generate"
    /\ UNCHANGED <<config, question, max_sources, search_results,
                   ranked_sections, filtered_evidence, answer, trace_id, db,
                   llm_calls, response, reranker_calls, rerank_results,
                   elsewhere, validator,
                   provider_calls, queries>>

\* context_builder.build: one labelled block per evidence item, in order.
BuildContext ==
    /\ pc = "check"
    /\ filtered_evidence.confidence # "insufficient"
    /\ context' = [i \in 1..Len(filtered_evidence.evidence) |->
                      filtered_evidence.evidence[i].citation_number]
    /\ stages' = Append(stages, Stage("context", "ok"))
    /\ pc' = "generate"
    /\ UNCHANGED <<config, question, max_sources, search_results,
                   ranked_sections, filtered_evidence, answer, trace_id, db,
                   llm_calls, response, reranker_calls, rerank_results,
                   elsewhere, validator,
                   provider_calls, queries>>

\* generator.generate: the LLM may return any text.
Generate ==
    /\ pc = "generate"
    /\ llm_calls' = llm_calls + 1
    /\ \E text \in TextsUpTo(MaxAnswerUnits) : answer' = text
    /\ stages' = Append(stages, Stage("generate", "ok"))
    /\ pc' = "trace"
    /\ provider_calls' = NoProviderCalls
    /\ UNCHANGED <<config, question, max_sources, search_results,
                   ranked_sections, filtered_evidence, context, trace_id, db,
                   response, reranker_calls, rerank_results, elsewhere, validator,
                   queries>>

\* An attempt of _generate_anthropic fails and the decorator tries again.
GenerateAttemptFails ==
    /\ pc = "generate"
    /\ \E calls \in FailedAttempt(LLMProviders, FALSE) :
          provider_calls' = calls
    /\ UNCHANGED <<config, pc, question, stages, max_sources, search_results,
                   ranked_sections, filtered_evidence, context, answer,
                   trace_id, db, llm_calls, response, reranker_calls,
                   rerank_results, elsewhere, validator, queries>>

\* The failure of the LLM swallowed: the query goes on with no text.
GenerateFailsSwallowed ==
    /\ pc = "generate"
    /\ llm_calls' = llm_calls + 1
    /\ stages' = Append(stages, Stage("generate", "error"))
    /\ pc' = "trace"
    /\ UNCHANGED <<config, question, max_sources, search_results,
                   ranked_sections, filtered_evidence, context, answer,
                   trace_id, db, response, reranker_calls, rerank_results,
                   elsewhere, validator,
                   provider_calls, queries>>

GenerateFails ==
    /\ pc = "generate"
    /\ llm_calls' = llm_calls + 1
    /\ stages' = Append(stages, Stage("generate", "error"))
    /\ response' = ErrorResponse
    /\ pc' = "done"
    /\ \E calls \in FailedAttempt(LLMProviders, TRUE) :
          provider_calls' = calls
    /\ UNCHANGED <<config, question, max_sources, search_results,
                   ranked_sections, filtered_evidence, context, answer,
                   trace_id, db, reranker_calls, rerank_results, elsewhere, validator,
                   queries>>

\* The trace written from the re-sorted evidence and the rewritten text.
LogTraceReconciled ==
    /\ pc = "trace"
    /\ trace_id' = NewTraceId
    /\ db' = Commit(TraceRows(
                 NewTraceId,
                 [filtered_evidence EXCEPT
                     !.evidence = EvidenceItems(SortedEvidence(@))],
                 Reconcile(answer, filtered_evidence.evidence)))
    /\ stages' = Append(stages, Stage("trace", "ok"))
    /\ pc' = "assemble"
    /\ UNCHANGED <<config, question, max_sources, search_results,
                   ranked_sections, filtered_evidence, context, answer,
                   llm_calls, response, reranker_calls, rerank_results,
                   elsewhere, validator, provider_calls, queries>>

\* trace_logger.log: the rows are added and the commit succeeds.
LogTrace ==
    /\ pc = "trace"
    /\ \A i \in 1..Len(filtered_evidence.evidence) :
          filtered_evidence.evidence[i].section \in StoredSectionIds
    /\ trace_id' = NewTraceId
    /\ db' = Commit(TraceRows(NewTraceId, filtered_evidence, answer))
    /\ stages' = Append(stages, Stage("trace", "ok"))
    /\ pc' = "assemble"
    /\ UNCHANGED <<config, question, max_sources, search_results,
                   ranked_sections, filtered_evidence, context, answer,
                   llm_calls, response, reranker_calls, rerank_results,
                   elsewhere, validator,
                   provider_calls, queries>>

\* The commit raises after the trace row alone went through.
LogTraceFailsPartial ==
    /\ pc = "trace"
    /\ db' = [db EXCEPT !.traces =
                 @ \cup TraceRows(NewTraceId, filtered_evidence, answer).traces]
    /\ stages' = Append(stages, Stage("trace", "error"))
    /\ response' = ErrorResponse
    /\ pc' = "done"
    /\ UNCHANGED <<config, question, max_sources, search_results,
                   ranked_sections, filtered_evidence, context, answer,
                   trace_id, llm_calls, reranker_calls, rerank_results,
                   elsewhere, validator,
                   provider_calls, queries>>

\* The commit raises and the query carries on without a trace.
LogTraceFailsSwallowed ==
    /\ pc = "trace"
    /\ stages' = Append(stages, Stage("trace", "error"))
    /\ pc' = "assemble"
    /\ UNCHANGED <<config, question, max_sources, search_results,
                   ranked_sections, filtered_evidence, context, answer,
                   trace_id, db, llm_calls, response, reranker_calls,
                   rerank_results, elsewhere, validator,
                   provider_calls, queries>>

\* The commit raises: rollback, and the exception reaches the endpoint.
LogTraceFails ==
    /\ pc = "trace"
    /\ stages' = Append(stages, Stage("trace", "error"))
    /\ response' = ErrorResponse
    /\ pc' = "done"
    /\ UNCHANGED <<config, question, max_sources, search_results,
                   ranked_sections, filtered_evidence, context, answer,
                   trace_id, db, llm_calls, reranker_calls, rerank_results,
                   elsewhere, validator,
                   provider_calls, queries>>

\* Sort, renumber, build the QueryResponse; the endpoint returns it.
Assemble ==
    /\ pc = "assemble"
    /\ response' =
          [code |-> 200,
           answer |-> Reconcile(answer, filtered_evidence.evidence),
           evidence |-> EvidenceItems(SortedEvidence(filtered_evidence.evidence)),
           confidence |-> filtered_evidence.confidence,
           trace_id |-> trace_id]
    /\ stages' = Append(stages, Stage("assemble", "ok"))
    /\ pc' = "done"
    /\ UNCHANGED <<config, question, max_sources, search_results,
                   ranked_sections, filtered_evidence, context, answer,
                   trace_id, db, llm_calls, reranker_calls, rerank_results,
                   elsewhere, validator,
                   provider_calls, queries>>

Next ==
    \/ Receive
    \/ ValidateInScope
    \/ ValidateOutOfScope
    \/ HybridSearch
    \/ EmbedAttemptFails
    \/ HybridSearchFails
    \/ Rerank
    \/ RerankFails
    \/ FilterEvidence
    \/ InsufficientEvidence
    \/ BuildContext
    \/ Generate
    \/ GenerateAttemptFails
    \/ GenerateFails
    \/ LogTrace
    \/ LogTraceFails
    \/ Assemble

Spec == Init /\ [][Next]_vars

----------------------------------------------------------------------------
(* EvidenceFilter.filter on its own: any ranked list with scores around    *)
(* the gate and any max_sources the endpoint lets through.                 *)

InitFilter ==
    /\ config = DefaultConfig
    /\ pc = "filter"
    /\ question = "q1"
    /\ stages = Completed(3)
    /\ max_sources \in 1..MaxFilterRequested
    /\ ranked_sections \in RankedOver(MaxRanked, GateScores)
    /\ search_results = [i \in 1..Len(ranked_sections) |-> i]
    /\ filtered_evidence = NoEvidence
    /\ context = <<>>
    /\ answer = <<>>
    /\ trace_id = 0
    /\ db = EmptyDb
    /\ llm_calls = 0
    /\ response = NoResponse
    /\ reranker_calls = <<Contents(search_results)>>
    /\ rerank_results = <<>>
    /\ hybrid = NoHybrid
    /\ trace_detail = NoTraceDetail
    /\ queries = 1
    /\ validator = DefaultValidator
    /\ provider_calls = NoProviderCalls
    /\ store = Corpus(MaxRanked)
    /\ write_result = NoWriteResult
    /\ writes = 0
    /\ limiter = NewLimiter
    /\ user_prompt = NoUserPrompt

NextFilter == FilterEvidence

SpecFilter == InitFilter /\ [][NextFilter]_vars

\* The filter taken alone, max_sources = 0 included.
InitFilterAny ==
    /\ config = DefaultConfig
    /\ pc = "filter"
    /\ question = "q1"
    /\ stages = Completed(3)
    /\ max_sources \in 0..MaxFilterRequested
    /\ ranked_sections \in RankedOver(MaxRanked, GateScores)
    /\ search_results = [i \in 1..Len(ranked_sections) |-> i]
    /\ filtered_evidence = NoEvidence
    /\ context = <<>>
    /\ answer = <<>>
    /\ trace_id = 0
    /\ db = EmptyDb
    /\ llm_calls = 0
    /\ response = NoResponse
    /\ reranker_calls = <<Contents(search_results)>>
    /\ rerank_results = <<>>
    /\ hybrid = NoHybrid
    /\ trace_detail = NoTraceDetail
    /\ queries = 1
    /\ validator = DefaultValidator
    /\ provider_calls = NoProviderCalls
    /\ store = Corpus(MaxRanked)
    /\ write_result = NoWriteResult
    /\ writes = 0
    /\ limiter = NewLimiter
    /\ user_prompt = NoUserPrompt

SpecFilterAny == InitFilterAny /\ [][NextFilter]_vars

(* The same under any configured thresholds.                               *)

TierConfigs ==
    {[DefaultConfig EXCEPT !.insufficient_threshold = t[1],
                           !.medium_threshold = t[2],
                           !.high_threshold = t[3]] :
        t \in (0..MaxThreshold) \X (0..MaxThreshold) \X (0..MaxThreshold)}

InitTier ==
    /\ config \in TierConfigs
    /\ pc = "filter"
    /\ question = "q1"
    /\ stages = Completed(3)
    /\ max_sources = max_sources_default
    /\ ranked_sections \in RankedOver(MaxTierRanked, GateScores)
    /\ search_results = [i \in 1..Len(ranked_sections) |-> i]
    /\ filtered_evidence = NoEvidence
    /\ context = <<>>
    /\ answer = <<>>
    /\ trace_id = 0
    /\ db = EmptyDb
    /\ llm_calls = 0
    /\ response = NoResponse
    /\ reranker_calls = <<Contents(search_results)>>
    /\ rerank_results = <<>>
    /\ hybrid = NoHybrid
    /\ trace_detail = NoTraceDetail
    /\ queries = 1
    /\ validator = DefaultValidator
    /\ provider_calls = NoProviderCalls
    /\ store = Corpus(MaxTierRanked)
    /\ write_result = NoWriteResult
    /\ writes = 0
    /\ limiter = NewLimiter
    /\ user_prompt = NoUserPrompt

NextTier == FilterEvidence

SpecTier == InitTier /\ [][NextTier]_vars

(* Response assembly on its own: the request as it stands once the trace   *)
(* is committed, for any evidence the filter can hand over and any answer  *)
(* text.                                                                   *)

InitReconcile ==
    /\ config = DefaultConfig
    /\ pc = "assemble"
    /\ question = "q1"
    /\ stages = Completed(7)
    /\ max_sources \in 1..MaxEvidence
    /\ ranked_sections \in
          RankedOver(MaxEvidence, {s \in RerankScores : s >= min_score_default})
    /\ search_results = [i \in 1..Len(ranked_sections) |-> i]
    /\ filtered_evidence = Filter(ranked_sections, max_sources)
    /\ filtered_evidence.confidence # "insufficient"
    /\ context = [i \in 1..Len(filtered_evidence.evidence) |->
                     filtered_evidence.evidence[i].citation_number]
    /\ answer \in TextsUpTo(MaxTextUnits)
    /\ trace_id = 1
    /\ db = TraceRows(1, filtered_evidence, answer)
    /\ llm_calls = 1
    /\ response = NoResponse
    /\ reranker_calls = <<Contents(search_results)>>
    /\ rerank_results = <<>>
    /\ hybrid = NoHybrid
    /\ trace_detail = NoTraceDetail
    /\ queries = 1
    /\ validator = DefaultValidator
    /\ provider_calls = NoProviderCalls
    /\ store = Corpus(MaxEvidence)
    /\ write_result = NoWriteResult
    /\ writes = 0
    /\ limiter = NewLimiter
    /\ user_prompt = NoUserPrompt

NextReconcile == Assemble

SpecReconcile == InitReconcile /\ [][NextReconcile]_vars

----------------------------------------------------------------------------
(* _merge_results on its own: any results of the two sub-searches, and any *)
(* order in which the set of their section ids is iterated.                *)

InitMerge ==
    /\ config = DefaultConfig
    /\ pc = "search"
    /\ question = "q1"
    /\ stages = Completed(1)
    /\ max_sources = max_sources_default
    /\ search_results = <<>>
    /\ ranked_sections = <<>>
    /\ filtered_evidence = NoEvidence
    /\ context = <<>>
    /\ answer = <<>>
    /\ trace_id = 0
    /\ db = EmptyDb
    /\ llm_calls = 0
    /\ response = NoResponse
    /\ reranker_calls = <<>>
    /\ rerank_results = <<>>
    /\ \E v \in SubSearchResults(VectorScores),
          k \in SubSearchResults(KeywordScores) :
          hybrid = [vector |-> v, keyword |-> k, merged |-> <<>>]
    /\ trace_detail = NoTraceDetail
    /\ queries = 1
    /\ validator = DefaultValidator
    /\ provider_calls = NoProviderCalls
    /\ store = Corpus(MaxMergeSections)
    /\ write_result = NoWriteResult
    /\ writes = 0
    /\ limiter = NewLimiter
    /\ user_prompt = NoUserPrompt

\* search(): _merge_results(vector_results, keyword_results) is returned.
MergeSearch ==
    /\ pc = "search"
    /\ \E order \in Orders(DOMAIN hybrid.vector \cup DOMAIN hybrid.keyword) :
          hybrid' = [hybrid EXCEPT !.merged =
                        MergeResults(hybrid.vector, hybrid.keyword, order)]
    /\ search_results' =
          [i \in 1..Len(hybrid'.merged) |-> hybrid'.merged[i].section]
    /\ stages' = Append(stages, Stage("search", "ok"))
    /\ pc' = "rerank"
    /\ UNCHANGED <<config, question, max_sources, ranked_sections,
                   filtered_evidence, context, answer, trace_id, db,
                   llm_calls, response, reranker_calls, rerank_results,
                   trace_detail, queries, validator, provider_calls, store,
                   write_result, writes, limiter, user_prompt>>

NextMerge == MergeSearch

SpecMerge == InitMerge /\ [][NextMerge]_vars

----------------------------------------------------------------------------
(* score_batch on its own: any number of candidates, any provider answer.  *)

InitRerank ==
    /\ config = DefaultConfig
    /\ pc = "rerank"
    /\ question = "q1"
    /\ stages = Completed(2)
    /\ max_sources = max_sources_default
    /\ \E n \in 0..MaxTexts : search_results = [i \in 1..n |-> i]
    /\ ranked_sections = <<>>
    /\ filtered_evidence = NoEvidence
    /\ context = <<>>
    /\ answer = <<>>
    /\ trace_id = 0
    /\ db = EmptyDb
    /\ llm_calls = 0
    /\ response = NoResponse
    /\ reranker_calls = <<>>
    /\ rerank_results = <<>>
    /\ hybrid = NoHybrid
    /\ trace_detail = NoTraceDetail
    /\ queries = 1
    /\ validator = DefaultValidator
    /\ provider_calls = NoProviderCalls
    /\ store = Corpus(MaxTexts)
    /\ write_result = NoWriteResult
    /\ writes = 0
    /\ limiter = NewLimiter
    /\ user_prompt = NoUserPrompt

NextRerank == Rerank

SpecRerank == InitRerank /\ [][NextRerank]_vars

----------------------------------------------------------------------------
(* The trace store over several requests, each taken from the point where  *)
(* its answer is generated, with lookups of GET /trace in between.         *)

\* Ranked lists that pass the filter with three evidence items.
TraceRanked ==
    {[i \in 1..3 |-> [section |-> i, rerank_score |-> f[i]]] :
        f \in {<<80, 80, 80>>, <<80, 90, 75>>}}

TraceAnswers == {<<>>, Marker(1)}

\* A request runs query() up to the return of generator.generate.
NextRequest ==
    /\ pc \in {"idle", "done"}
    /\ queries < MaxQueries
    /\ queries' = queries + 1
    /\ \E q \in Questions : question' = q
    /\ max_sources' = max_sources_default
    /\ \E ranked \in TraceRanked :
          /\ \A i \in 1..Len(ranked) : ranked[i].section \in StoredSectionIds
          /\ ranked_sections' = ranked
          /\ search_results' = [i \in 1..Len(ranked) |-> ranked[i].section]
          /\ filtered_evidence' = Filter(ranked, max_sources_default)
    /\ context' = [i \in 1..Len(filtered_evidence'.evidence) |->
                      filtered_evidence'.evidence[i].citation_number]
    /\ \E text \in TraceAnswers : answer' = text
    /\ llm_calls' = llm_calls + 1
    /\ reranker_calls' = Append(reranker_calls, Contents(search_results'))
    /\ rerank_results' = <<>>
    /\ stages' = Completed(6)
    /\ trace_id' = 0
    /\ response' = NoResponse
    /\ pc' = "trace"
    /\ UNCHANGED <<config, db, elsewhere, validator,
                   provider_calls>>

\* GET /trace/{trace_id}
GetTrace ==
    /\ \E id \in 1..(MaxQueries + 1) : trace_detail' = TraceDetail(id)
    /\ UNCHANGED <<config, pc, question, stages, max_sources, search_results,
                   ranked_sections, filtered_evidence, context, answer,
                   trace_id, db, llm_calls, response, reranker_calls,
                   rerank_results, hybrid, queries, validator,
                   provider_calls, store, write_result, writes, limiter, user_prompt>>

NextTrace ==
    \/ NextRequest
    \/ LogTrace
    \/ LogTraceFails
    \/ Assemble
    \/ GetTrace

SpecTrace == Init /\ [][NextTrace]_vars

----------------------------------------------------------------------------
(* The corpus rewritten while queries are answered and traces looked up.   *)

\* The write that takes the citations of the old sections away with them.
WriteDeletingCitations ==
    /\ writes < MaxWrites
    /\ \E path \in FilePaths, h \in Versions :
          LET gone == {s.section_id : s \in
                          {t \in store.sections : \E d \in store.documents :
                              d.file_path = path /\ d.doc_id = t.doc_id
                                  /\ d.content_hash # h}}
              rows == {c \in db.citations : c.section_id \notin gone}
          IN  /\ db' = [db EXCEPT !.citations = rows]
              /\ store' = store
              /\ write_result' =
                    [WriteResult(0, 0, Cardinality(gone)) EXCEPT
                        !.file_path = path, !.content_hash = h]
    /\ writes' = writes + 1
    /\ UNCHANGED <<config, pc, question, stages, max_sources, search_results,
                   ranked_sections, filtered_evidence, context, answer,
                   trace_id, llm_calls, response, reranker_calls,
                   rerank_results, hybrid, trace_detail, queries, validator,
                   provider_calls, limiter, user_prompt>>

\* IngestionService.ingest_files reaches writer.write for one parsed file.
Write ==
    /\ writes < MaxWrites
    /\ \E path \in FilePaths, h \in Versions :
          LET outcome == WriteOutcome(DocumentData(path, h))
          IN  /\ store' = outcome.store
              /\ write_result' =
                    [outcome.result EXCEPT
                        !.file_path = path, !.content_hash = h]
    /\ writes' = writes + 1
    /\ UNCHANGED <<config, pc, question, stages, max_sources, search_results,
                   ranked_sections, filtered_evidence, context, answer,
                   trace_id, db, llm_calls, response, reranker_calls,
                   rerank_results, hybrid, trace_detail, queries, validator,
                   provider_calls, limiter, user_prompt>>

NextStore ==
    \/ NextRequest
    \/ LogTrace
    \/ LogTraceFails
    \/ Assemble
    \/ GetTrace
    \/ Write

SpecStore == Init /\ [][NextStore]_vars

----------------------------------------------------------------------------
(* Callers of the rate limiter, one statement of wait_if_needed per step. *)

LimiterUnchanged ==
    UNCHANGED <<config, pc, question, stages, max_sources, search_results,
                ranked_sections, filtered_evidence, context, answer,
                trace_id, db, llm_calls, response, reranker_calls,
                rerank_results, hybrid, trace_detail, queries, validator,
                provider_calls, store, write_result, writes, user_prompt>>

\* _embed_voyage calls wait_if_needed before a batch: lines 33-36.
EnterGate(c) ==
    /\ limiter.callers[c].at = "outside"
    /\ Len(limiter.passages) < MaxPassages
    /\ limiter' = [limiter EXCEPT
                      !.callers[c] = Decide(limiter.last_called, limiter.now)]
    /\ LimiterUnchanged

\* time.sleep(wait_time) returns.
WakeUp(c) ==
    /\ limiter.callers[c].at = "sleep"
    /\ limiter.now >= limiter.callers[c].wake
    /\ limiter' = [limiter EXCEPT !.callers[c].at = "stamp"]
    /\ LimiterUnchanged

\* self.last_called = time.time(), and the caller goes on to the provider.
StampGate(c) ==
    /\ limiter.callers[c].at = "stamp"
    /\ limiter' = [limiter EXCEPT
                      !.last_called = limiter.now,
                      !.passages = Append(limiter.passages, limiter.now),
                      !.callers[c] = Outside]
    /\ LimiterUnchanged

\* The clock advances by half an interval or by a whole one.
TimePasses ==
    /\ \E d \in {min_interval \div 2, min_interval} :
          /\ limiter.now + d <= MaxTime
          /\ limiter' = [limiter EXCEPT !.now = limiter.now + d]
    /\ LimiterUnchanged

NextLimiter ==
    \/ \E c \in Callers : EnterGate(c)
    \/ \E c \in Callers : WakeUp(c)
    \/ \E c \in Callers : StampGate(c)
    \/ TimePasses

SpecLimiter == Init /\ [][NextLimiter]_vars

----------------------------------------------------------------------------
(* The context and the user prompt, for any evidence over any contents.    *)

\* Evidence lists over the sections 1..n: distinct sections in any order,
\* numbered as the filter numbers them.
EvidenceOver(n) ==
    UNION {{Numbered([i \in 1..Cardinality(S) |->
                         [section |-> o[i], rerank_score |-> 80]]) :
               o \in Orders(S)} : S \in SUBSET (1..n)}

InitContext ==
    /\ config = DefaultConfig
    /\ pc = "check"
    /\ question = "q1"
    /\ stages = Completed(4)
    /\ max_sources = MaxContextSections
    /\ search_results = [i \in 1..MaxContextSections |-> i]
    /\ ranked_sections = [i \in 1..MaxContextSections |->
                             [section |-> i, rerank_score |-> 80]]
    /\ \E contents \in [1..MaxContextSections -> SectionContents] :
          store = CorpusOf(contents)
    /\ \E evidence \in EvidenceOver(MaxContextSections) :
          filtered_evidence = [evidence |-> evidence, confidence |-> "high"]
    /\ context = <<>>
    /\ answer = <<>>
    /\ trace_id = 0
    /\ db = EmptyDb
    /\ llm_calls = 0
    /\ response = NoResponse
    /\ reranker_calls = <<Contents(search_results)>>
    /\ rerank_results = <<>>
    /\ hybrid = NoHybrid
    /\ trace_detail = NoTraceDetail
    /\ queries = 1
    /\ validator = DefaultValidator
    /\ provider_calls = NoProviderCalls
    /\ write_result = NoWriteResult
    /\ writes = 0
    /\ limiter = NewLimiter
    /\ user_prompt = NoUserPrompt

\* context_builder.build, then the user prompt generator.generate builds
\* from its result.
BuildPrompt ==
    /\ pc = "check"
    /\ context' = Build(filtered_evidence.evidence)
    /\ user_prompt' = BuildUserPrompt(question, context')
    /\ stages' = Append(stages, Stage("context", "ok"))
    /\ pc' = "generate"
    /\ UNCHANGED <<config, question, max_sources, search_results,
                   ranked_sections, filtered_evidence, answer, trace_id, db,
                   llm_calls, response, reranker_calls, rerank_results,
                   hybrid, trace_detail, store, write_result, writes,
                   limiter, validator, provider_calls, queries>>

NextContext == BuildPrompt

SpecContext == InitContext /\ [][NextContext]_vars

----------------------------------------------------------------------------
(* Scope validation under every configuration of the validator, up to the  *)
(* search it lets through.                                                 *)

InitValidate ==
    /\ config = DefaultConfig
    /\ pc = "idle"
    /\ question = ""
    /\ stages = <<>>
    /\ max_sources = 0
    /\ search_results = <<>>
    /\ ranked_sections = <<>>
    /\ filtered_evidence = NoEvidence
    /\ context = <<>>
    /\ answer = <<>>
    /\ trace_id = 0
    /\ db = EmptyDb
    /\ llm_calls = 0
    /\ response = NoResponse
    /\ reranker_calls = <<>>
    /\ rerank_results = <<>>
    /\ hybrid = NoHybrid
    /\ trace_detail = NoTraceDetail
    /\ queries = 0
    /\ validator \in ValidatorConfigs
    /\ provider_calls = NoProviderCalls
    /\ store = Corpus(MaxCandidates)
    /\ write_result = NoWriteResult
    /\ writes = 0
    /\ limiter = NewLimiter
    /\ user_prompt = NoUserPrompt

NextValidate ==
    \/ Receive
    \/ ValidateInScope
    \/ ValidateOutOfScope
    \/ HybridSearch
    \/ EmbedAttemptFails
    \/ HybridSearchFails

SpecValidate == InitValidate /\ [][NextValidate]_vars

----------------------------------------------------------------------------
(* Properties.                                                             *)

\* The citation numbers n of which [n] occurs in a text.
MarkersIn(text) ==
    {n \in 1..9 : \E i \in 1..Len(text) :
        i + 2 <= Len(text) /\ SubSeq(text, i, i + 2) = Marker(n)}

StartsWith(text, prefix) ==
    Len(text) >= Len(prefix) /\ SubSeq(text, 1, Len(prefix)) = prefix

\* One pass over a text: each marker [i], i in 1..k, becomes [p[i]], each
\* literal placeholder [TEMP_j], j in 1..k, becomes [j], and every other
\* character stays.
RECURSIVE RewrittenOnce(_, _, _)
RewrittenOnce(text, p, k) ==
    IF text = <<>> THEN <<>>
    ELSE IF \E i \in 1..k : StartsWith(text, Marker(i))
    THEN LET i == CHOOSE i \in 1..k : StartsWith(text, Marker(i))
         IN  Marker(p[i]) \o RewrittenOnce(SubSeq(text, 4, Len(text)), p, k)
    ELSE IF \E j \in 1..k : StartsWith(text, Placeholder(j))
    THEN LET j == CHOOSE j \in 1..k : StartsWith(text, Placeholder(j))
         IN  Marker(j) \o RewrittenOnce(SubSeq(text, 5, Len(text)), p, k)
    ELSE <<Head(text)>> \o RewrittenOnce(Tail(text), p, k)

\* The positions at which the response lists the section that the
\* generation-time evidence i was.
PositionsOf(i) ==
    {j \in 1..Len(response.evidence) :
        response.evidence[j].section = filtered_evidence.evidence[i].section}

NonIncreasing(scores) ==
    \A i \in 1..Len(scores) - 1 : scores[i] >= scores[i + 1]

\* Candidates of the ranked list that pass the gate, as positions.
Retained ==
    {i \in 1..Len(ranked_sections) :
        ranked_sections[i].rerank_score >= config.min_score}

EvidenceSections ==
    {filtered_evidence.evidence[i].section :
        i \in 1..Len(filtered_evidence.evidence)}

\* C1: reconciliation rewrites every marker [i] of an answer whose markers
\* are all among [1]..[k] to [p(i)], p(i) being the position of the
\* generation-time evidence i in the returned, relevance-sorted evidence;
\* p is a bijection on 1..k and nothing else of the text changes (a literal
\* [TEMP_j] becomes [j]).
C1_ReconciliationBijective ==
    (pc = "done" /\ response.code = 200
        /\ response.confidence # "insufficient") =>
        LET k == Len(filtered_evidence.evidence)
        IN  /\ Len(response.evidence) = k
            /\ \A i \in 1..k : Cardinality(PositionsOf(i)) = 1
            /\ \A j \in 1..k : \E i \in 1..k : j \in PositionsOf(i)
            /\ MarkersIn(answer) \subseteq 1..k =>
                  response.answer =
                      RewrittenOnce(
                          answer,
                          [i \in 1..k |-> CHOOSE j \in PositionsOf(i) : TRUE],
                          k)

\* C1 witness: an answer citing two different sources whose evidence
\* changes places in the response.
C1_Witness ==
    /\ pc = "done"
    /\ response.code = 200
    /\ Cardinality(MarkersIn(answer)) >= 2
    /\ MarkersIn(answer) \subseteq 1..Len(filtered_evidence.evidence)
    /\ response.answer # answer

\* C2: every marker [n] in the answer of a successful response names an
\* evidence entry of that response, 1 <= n <= len(evidence).
C2_MarkersHaveEvidence ==
    response.code = 200 =>
        MarkersIn(response.answer) \subseteq 1..Len(response.evidence)

\* C3: the evidence of a successful response is in non-increasing
\* relevance order and the item at position i has citation number i.
C3_ResponseEvidenceOrdered ==
    response.code = 200 =>
        /\ NonIncreasing([i \in 1..Len(response.evidence) |->
                             response.evidence[i].relevance_score])
        /\ \A i \in 1..Len(response.evidence) :
              response.evidence[i].citation_number = i

\* C3 witness: a response whose evidence the filter had handed over in
\* another order.
C3_Witness ==
    /\ pc = "done"
    /\ response.code = 200
    /\ Len(response.evidence) >= 2
    /\ \E i \in 1..Len(response.evidence) :
          response.evidence[i].section # filtered_evidence.evidence[i].section

C5_InsufficientIffEmpty ==
    pc = "check" =>
        (filtered_evidence.confidence = "insufficient"
            <=> filtered_evidence.evidence = <<>>)

\* C5 amended: an empty evidence list always comes with confidence
\* insufficient; an insufficient result may still carry evidence, at most
\* insufficient_threshold items.
C5_EmptyImpliesInsufficient ==
    pc = "check" =>
        /\ filtered_evidence.evidence = <<>> =>
              filtered_evidence.confidence = "insufficient"
        /\ filtered_evidence.confidence = "insufficient" =>
              Len(filtered_evidence.evidence) <= config.insufficient_threshold

\* C5 witness: candidates were ranked, none passed the gate, and the empty
\* result is insufficient.
C5_Witness ==
    /\ pc = "check"
    /\ Len(ranked_sections) >= 1
    /\ filtered_evidence.evidence = <<>>
    /\ filtered_evidence.confidence = "insufficient"

\* The tier the contract gives a retained count n, its four cases read in
\* order.
ContractTier(n) ==
    IF n <= config.insufficient_threshold THEN "insufficient"
    ELSE IF config.insufficient_threshold < n /\ n < config.medium_threshold
    THEN "medium"
    ELSE IF config.medium_threshold <= n /\ n < config.high_threshold
    THEN "high"
    ELSE IF n >= config.high_threshold THEN "very_high"
    ELSE "none"

C7_InsufficientStopsPipeline ==
    filtered_evidence.confidence = "insufficient" =>
        /\ pc \in {"check", "done"}
        /\ llm_calls = 0
        /\ db = EmptyDb
        /\ pc = "done" =>
              /\ response.code = 200
              /\ response.confidence = "insufficient"
              /\ response.evidence = <<>>
              /\ response.trace_id = 0

\* C7 witness: hybrid search found no candidate and the caller was
\* answered.
C7_Witness ==
    /\ pc = "done"
    /\ search_results = <<>>
    /\ filtered_evidence.confidence = "insufficient"
    /\ response.code = 200

\* C8: every evidence item has relevance_score >= min_score, no candidate
\* below min_score is in the evidence wherever it stands in the ranked
\* list, and a candidate scoring exactly min_score is retained (it is in
\* the evidence unless truncation cuts it).
C8_QualityGate ==
    pc = "check" =>
        /\ \A i \in 1..Len(filtered_evidence.evidence) :
              filtered_evidence.evidence[i].relevance_score >= config.min_score
        /\ \A j \in 1..Len(ranked_sections) :
              ranked_sections[j].rerank_score < config.min_score =>
                  ranked_sections[j].section \notin EvidenceSections
        /\ \A j \in 1..Len(ranked_sections) :
              (/\ ranked_sections[j].rerank_score = config.min_score
               /\ Cardinality({i \in Retained : i < j})
                      < Min(max_sources, config.max_sources)) =>
                  ranked_sections[j].section \in EvidenceSections

\* C8 witness: a candidate below the gate stands first, one scoring
\* exactly min_score follows and is in the evidence.
C8_Witness ==
    /\ pc = "check"
    /\ Len(ranked_sections) >= 2
    /\ ranked_sections[1].rerank_score < config.min_score
    /\ ranked_sections[2].rerank_score = config.min_score
    /\ ranked_sections[2].section \in EvidenceSections

\* C9: the evidence the filter produces in the pipeline is in
\* non-increasing rerank-score order, and every retained candidate that
\* truncation drops scores no more than every candidate that is kept.
C9_TruncationKeepsBest ==
    pc \in {"check", "generate", "trace", "assemble", "done"} /\
        filtered_evidence.confidence # "none" =>
        /\ NonIncreasing([i \in 1..Len(filtered_evidence.evidence) |->
                             filtered_evidence.evidence[i].relevance_score])
        /\ \A j \in Retained :
              ranked_sections[j].section \notin EvidenceSections =>
                  \A i \in 1..Len(filtered_evidence.evidence) :
                      ranked_sections[j].rerank_score
                          <= filtered_evidence.evidence[i].relevance_score

\* C10: for a fixed ranked list the confidence is the same whatever
\* max_sources is: it is the tier of the number of candidates at or above
\* min_score, counted before truncation.
C10_ConfidenceIgnoresMaxSources ==
    pc = "check" =>
        /\ filtered_evidence.confidence =
              DetermineConfidence(Cardinality(Retained))
        /\ \A m \in 1..MaxFilterRequested :
              Filter(ranked_sections, m).confidence
                  = filtered_evidence.confidence

\* C10 witness: truncation left one item of three or more retained, and
\* the confidence is very_high.
C10_Witness ==
    /\ pc = "check"
    /\ Cardinality(Retained) >= 3
    /\ Len(filtered_evidence.evidence) = 1
    /\ filtered_evidence.confidence = "very_high"

\* C11: the stages of query() run in the order validation, search, rerank,
\* filter, context, generation, trace, assembly; a stage starts only after
\* the one before returned without error; after a failure or an
\* insufficient outcome the request is over and no later stage has run; a
\* trace is stored only after generation succeeded, and an answer is
\* returned only after its trace was committed.
C11_StagesInOrder ==
    /\ Len(stages) <= Len(StageOrder)
    /\ \A i \in 1..Len(stages) : stages[i].stage = StageOrder[i]
    /\ \A i \in 1..(Len(stages) - 1) : stages[i].outcome = "ok"
    /\ (stages # <<>> /\ stages[Len(stages)].outcome # "ok") => pc = "done"
    /\ response.confidence = "insufficient" =>
          /\ pc = "done"
          /\ \A i \in 1..Len(stages) :
                stages[i].stage \in {"validate", "search", "rerank", "filter"}
    /\ db.traces # {} =>
          \E i \in 1..Len(stages) : stages[i] = Stage("generate", "ok")
    /\ (response.code = 200 /\ response.confidence # "insufficient") =>
          /\ \E i \in 1..Len(stages) : stages[i] = Stage("trace", "ok")
          /\ \E t \in db.traces : t.trace_id = response.trace_id

\* C11 witness: a request went through all eight stages and was answered.
C11_Witness ==
    /\ pc = "done"
    /\ stages = Completed(8)
    /\ response.code = 200

\* C12: when the validator finds the question out of scope the caller gets
\* a successful response with confidence insufficient, no evidence and an
\* empty trace id, and that query does no search (hence no embedding), no
\* rerank, no answer generation and no trace write.
C12_OutOfScopeShortCircuits ==
    (stages # <<>> /\ stages[1].outcome = "out_of_scope") =>
        /\ pc = "done"
        /\ response.code = 200
        /\ response.confidence = "insufficient"
        /\ response.evidence = <<>>
        /\ response.trace_id = 0
        /\ Len(stages) = 1
        /\ search_results = <<>>
        /\ reranker_calls = <<>>
        /\ llm_calls = 0
        /\ db = EmptyDb

\* C12 witness: the validator has found a question out of scope.
C12_Witness ==
    /\ stages = <<Stage("validate", "out_of_scope")>>
    /\ response.code = 200

\* A cited answer: the text cites, every citation is backed by the
\* non-empty returned evidence, the confidence is not insufficient and the
\* trace id resolves.
CitedAnswer ==
    /\ response.code = 200
    /\ response.confidence \in {"medium", "high", "very_high"}
    /\ response.evidence # <<>>
    /\ MarkersIn(response.answer) # {}
    /\ MarkersIn(response.answer) \subseteq 1..Len(response.evidence)
    /\ TraceDetail(response.trace_id).code = 200

InsufficientOutcome ==
    /\ response.code = 200
    /\ response.confidence = "insufficient"
    /\ response.evidence = <<>>
    /\ llm_calls = 0

FailureOutcome ==
    /\ response.code = 500
    /\ response.answer = <<>>

\* C13: every call of the endpoint ends as a cited answer, as an explicit
\* insufficient-evidence response or as a failure response, and as only one
\* of them; an uncited or partly backed answer is never returned.
C13_ThreeOutcomes ==
    pc = "done" =>
        /\ CitedAnswer \/ InsufficientOutcome \/ FailureOutcome
        /\ ~ (CitedAnswer /\ InsufficientOutcome)
        /\ ~ (CitedAnswer /\ FailureOutcome)
        /\ ~ (InsufficientOutcome /\ FailureOutcome)

\* The score a sub-search gave a section, 0 when it did not return it.
SubScore(results, section_id) ==
    IF section_id \in DOMAIN results THEN results[section_id] ELSE 0

MergedSections == {hybrid.merged[i].section : i \in 1..Len(hybrid.merged)}

\* C14: every merged result has combined_score = vector_weight * v +
\* keyword_weight * k, v and k being the section's scores in the vector and
\* keyword sub-searches, 0 for a sub-search that did not return it; nothing
\* is renormalised (weights 0.7 and 0.3, scores in tenths).
C14_FusionScore ==
    pc = "rerank" =>
        \A i \in 1..Len(hybrid.merged) :
            LET r == hybrid.merged[i]
                v == SubScore(hybrid.vector, r.section)
                k == SubScore(hybrid.keyword, r.section)
            IN  /\ r.vector_score = v
                /\ r.keyword_score = k
                /\ r.combined_score =
                      vector_weight_default * v + keyword_weight_default * k

\* C14 witness: the merge holds a section both sub-searches returned and a
\* section only the keyword search returned.
C14_Witness ==
    /\ pc = "rerank"
    /\ \E i, j \in 1..Len(hybrid.merged) :
          /\ hybrid.merged[i].section \in
                DOMAIN hybrid.vector \cap DOMAIN hybrid.keyword
          /\ hybrid.merged[i].vector_score # hybrid.merged[i].keyword_score
          /\ hybrid.merged[j].section \in
                DOMAIN hybrid.keyword \ DOMAIN hybrid.vector

\* C15: search returns exactly one result per section of the union of the
\* two sub-search results, none twice and none missing, in non-increasing
\* order of combined score; it is non-empty only if a sub-search returned a
\* section.
C15_MergeIsOrderedUnion ==
    pc = "rerank" =>
        /\ MergedSections = DOMAIN hybrid.vector \cup DOMAIN hybrid.keyword
        /\ Len(hybrid.merged) = Cardinality(MergedSections)
        /\ NonIncreasing([i \in 1..Len(hybrid.merged) |->
                             hybrid.merged[i].combined_score])
        /\ search_results =
              [i \in 1..Len(hybrid.merged) |-> hybrid.merged[i].section]
        /\ (hybrid.merged # <<>> =>
               DOMAIN hybrid.vector \cup DOMAIN hybrid.keyword # {})

\* C15 witness: three sections merged, one known to the vector search only,
\* one to the keyword search only, and not all of the same combined score.
C15_Witness ==
    /\ pc = "rerank"
    /\ Len(hybrid.merged) = 3
    /\ DOMAIN hybrid.vector \ DOMAIN hybrid.keyword # {}
    /\ DOMAIN hybrid.keyword \ DOMAIN hybrid.vector # {}
    /\ hybrid.merged[1].combined_score > hybrid.merged[3].combined_score

\* The provider's score for the text at position i (index i - 1), 0 when
\* its answer holds none.
ProviderScoreAt(i) ==
    IF \E j \in 1..Len(rerank_results) : rerank_results[j].index = i - 1
    THEN rerank_results[CHOOSE j \in 1..Len(rerank_results) :
                            rerank_results[j].index = i - 1].relevance_score
    ELSE 0

\* C16: for n texts and a provider answer that scores only some of the
\* indices 0..n-1, score_batch returns n scores (as the rerank step pairs
\* them), position i holding the provider's score for index i, or 0 where
\* the provider gave none; nothing is dropped or reordered.
C16_PositionalIntegrity ==
    pc = "filter" =>
        /\ Len(ranked_sections) = Len(search_results)
        /\ \A i \in 1..Len(ranked_sections) :
              ranked_sections[i].rerank_score = ProviderScoreAt(i)

\* C16 witness: four texts, the provider scored two of them and returned
\* the later one first.
C16_Witness ==
    /\ pc = "filter"
    /\ Len(search_results) = 4
    /\ Len(rerank_results) = 2
    /\ rerank_results[1].index > rerank_results[2].index
    /\ rerank_results[1].relevance_score # rerank_results[2].relevance_score

\* C17: a query calls the reranker once, with the contents of all the
\* candidates of hybrid search in their order; the ranked list has the
\* length and order of the candidate list, and position i pairs candidate
\* i's section with the score computed for candidate i's text.
C17_RerankOncePairedInOrder ==
    /\ Len(reranker_calls) <= 1
    /\ pc \in {"filter", "check", "generate", "trace", "assemble"} =>
          /\ reranker_calls = <<Contents(search_results)>>
          /\ Len(ranked_sections) = Len(search_results)
          /\ \A i \in 1..Len(ranked_sections) :
                ranked_sections[i].section = search_results[i]
    /\ pc = "filter" =>
          \A i \in 1..Len(ranked_sections) :
              ranked_sections[i].rerank_score = ProviderScoreAt(i)

\* C17 witness: three candidates reranked, the last one scored best.
C17_Witness ==
    /\ pc = "filter"
    /\ Len(ranked_sections) = 3
    /\ ranked_sections[1].rerank_score < ranked_sections[2].rerank_score
    /\ ranked_sections[2].rerank_score < ranked_sections[3].rerank_score

RowsOf(rows, id) == {r \in rows : r.trace_id = id}

TraceFailed == stages # <<>> /\ stages[Len(stages)] = Stage("trace", "error")

\* C18: in every committed state each trace row comes with exactly one
\* answer row and one citation row per evidence item of its query, with the
\* item's citation number; no citation or answer row is without its trace
\* row; when the commit fails nothing of that trace is stored and the
\* caller gets the error.
C18_TraceAtomicity ==
    /\ \A t \in db.traces :
          /\ Cardinality(RowsOf(db.traces, t.trace_id)) = 1
          /\ Cardinality(RowsOf(db.answers, t.trace_id)) = 1
          /\ Cardinality(RowsOf(db.citations, t.trace_id)) =
                Cardinality({c.citation_number :
                                c \in RowsOf(db.citations, t.trace_id)})
    /\ \A r \in db.citations \cup db.answers :
          RowsOf(db.traces, r.trace_id) # {}
    /\ trace_id # 0 =>
          /\ RowsOf(db.traces, trace_id) # {}
          /\ RowsOf(db.answers, trace_id) =
                {[trace_id |-> trace_id, answer_text |-> answer]}
          /\ Cardinality(RowsOf(db.citations, trace_id)) =
                Len(filtered_evidence.evidence)
          /\ \A i \in 1..Len(filtered_evidence.evidence) :
                [trace_id |-> trace_id,
                 section_id |-> filtered_evidence.evidence[i].section,
                 citation_number |->
                     filtered_evidence.evidence[i].citation_number,
                 relevance_score |->
                     filtered_evidence.evidence[i].relevance_score]
                    \in db.citations
    /\ TraceFailed =>
          /\ response.code = 500
          /\ trace_id = 0
          /\ Cardinality(db.traces) < queries

\* C18 witness: one request left its trace and the next one lost its rows
\* to a failing commit.
C18_Witness ==
    /\ TraceFailed
    /\ queries = 2
    /\ Cardinality(db.traces) = 1
    /\ Cardinality(db.citations) = 3

\* C19: when the trace cannot be stored the whole query fails: the endpoint
\* returns the failure response and the answer that was generated is not
\* in it.
C19_TraceFailureFailsQuery ==
    TraceFailed =>
        /\ pc = "done"
        /\ response.code = 500
        /\ response.answer = <<>>
        /\ response.evidence = <<>>
        /\ response.trace_id = 0

\* C19 witness: an answer text was generated, the commit of its trace
\* failed and the caller has the failure response.
C19_Witness ==
    /\ TraceFailed
    /\ llm_calls = 1
    /\ answer # <<>>
    /\ response.code = 500

AddedRows ==
    (db'.traces \ db.traces) \cup (db'.citations \ db.citations)
        \cup (db'.answers \ db.answers)

\* C21: the trace tables are an append-only audit log: no query, trace
\* lookup or ingestion write changes or deletes a committed trace,
\* citation or answer row, and a query only adds the rows of its own new
\* trace.
C21_TraceTablesAppendOnly ==
    [][/\ db.traces \subseteq db'.traces
       /\ db.citations \subseteq db'.citations
       /\ db.answers \subseteq db'.answers
       /\ \A r \in AddedRows :
             /\ r.trace_id = trace_id'
             /\ RowsOf(db.traces, r.trace_id) = {}
             /\ pc = "trace"]_vars

\* Two traces are committed, one was looked up, and a write of a cited
\* document was refused.
C21_Witness ==
    /\ Cardinality(db.traces) = 2
    /\ trace_detail.code = 200
    /\ write_result.status = "error"

\* The step is a write of a file that is stored with this content hash
\* (same = TRUE) or with another one (same = FALSE).
WriteOfStored(same) ==
    /\ writes' = writes + 1
    /\ \E d \in store.documents :
          /\ d.file_path = write_result'.file_path
          /\ (d.content_hash = write_result'.content_hash) = same

\* C22: the write of a document whose file_path is stored with the same
\* content_hash returns added = updated = deleted = 0 and leaves the
\* document, section and image rows as they were.
C22_IngestionIdempotent ==
    [][WriteOfStored(TRUE) =>
          /\ write_result'.status = "ok"
          /\ write_result'.added = 0
          /\ write_result'.updated = 0
          /\ write_result'.deleted = 0
          /\ store' = store]_vars

\* A document written before is written again unchanged.
C22_Witness ==
    /\ writes >= 2
    /\ write_result.status = "ok"
    /\ write_result.added + write_result.updated + write_result.deleted = 0
    /\ \E d \in store.documents :
          /\ d.file_path = write_result.file_path
          /\ d.content_hash = write_result.content_hash
          /\ d.content_hash \in Versions

\* C23: after the write of a document whose file_path is stored with
\* another content_hash, whether or not traces cite its old sections, the
\* document's sections are exactly those of the new version, the stored
\* hash is the new one, one document row has the file_path, and the result
\* reports deleted = old sections, updated = new sections, added = 0.
C23_ReingestionFullReplace ==
    [][WriteOfStored(FALSE) =>
          LET path == write_result'.file_path
              new == DocumentData(path, write_result'.content_hash)
              old_docs == {d \in store.documents : d.file_path = path}
              old_ids == {s.section_id : s \in
                             {t \in store.sections :
                                 \E d \in old_docs : t.doc_id = d.doc_id}}
              docs == {d \in store'.documents : d.file_path = path}
              kept == {s \in store'.sections :
                          \E d \in docs : s.doc_id = d.doc_id}
          IN  /\ Cardinality(docs) = 1
              /\ \A d \in docs : d.content_hash = new.content_hash
              /\ \A s \in kept : s.section_id \notin old_ids
              /\ {<<s.section_order, s.content>> : s \in kept} =
                    {<<new.sections[i].order, new.sections[i].content>> :
                        i \in 1..Len(new.sections)}
              /\ Cardinality(kept) = Len(new.sections)
              /\ write_result'.status = "ok"
              /\ write_result'.deleted = Cardinality(old_ids)
              /\ write_result'.updated = Len(new.sections)
              /\ write_result'.added = 0]_vars

\* C24: wait-then-stamp is atomic: two callers never both observe "no wait
\* needed" against the same last_called stamp, and any two consecutive
\* passages through the gate are at least min_interval apart.
C24_AtomicWaitThenStamp ==
    /\ \A c1, c2 \in Callers :
          (/\ c1 # c2
           /\ limiter.callers[c1].at = "stamp"
           /\ limiter.callers[c2].at = "stamp"
           /\ limiter.callers[c1].wake = 0
           /\ limiter.callers[c2].wake = 0)
              => limiter.callers[c1].seen # limiter.callers[c2].seen
    /\ \A i \in 1..(Len(limiter.passages) - 1) :
          limiter.passages[i + 1] - limiter.passages[i] >= min_interval

\* C25: a provider call made for a query (embedding, reranking, answer
\* generation) that fails is attempted again at the provider boundary, a
\* bounded number of times; once the attempts are exhausted the failure
\* ends the query: no later stage runs.
C25_ProviderFailuresRetried ==
    /\ provider_calls.failed <= Max(voyage_attempts,
                                    Max(openai_attempts, anthropic_attempts))
    /\ (pc = "done" /\ provider_calls.failed > 0) =>
          /\ provider_calls.failed > 1
          /\ response = ErrorResponse
          /\ stages[Len(stages)].outcome = "error"

\* The prompt of a request whose context has been built.
PromptBuilt == pc = "generate" /\ user_prompt # NoUserPrompt

\* C26: whatever the section contents are, the context carries the
\* citation labels [1]..[k] in evidence order, and the maximum-citation
\* hint of the user prompt equals k, the number of Evidence items passed to
\* ContextBuilder.build.
C26_LabelsAndHintMatchEvidence ==
    PromptBuilt =>
        LET k == Len(filtered_evidence.evidence)
        IN  /\ SourceNumbers(context) = [i \in 1..k |-> i]
            /\ user_prompt.max_source = k

\* C27: for every max_sources >= 0 the evidence is exactly the first
\* min(n, max_sources, configured max_sources) retained candidates (n the
\* number of candidates with rerank_score >= min_score), in their order in
\* the input, each with relevance_score equal to its rerank_score.
C27_FilterTruncation ==
    pc = "check" =>
        LET n == Cardinality(Retained)
            k == Min(n, Min(max_sources, config.max_sources))
            evidence == filtered_evidence.evidence
        IN  /\ Len(evidence) = k
            /\ \A i \in 1..Len(evidence) :
                  \E p \in Retained :
                      /\ Cardinality({j \in Retained : j <= p}) = i
                      /\ evidence[i].section = ranked_sections[p].section
                      /\ evidence[i].relevance_score
                            = ranked_sections[p].rerank_score

\* C27 witness: more candidates are retained than the configuration
\* allows and more are requested: the configured maximum cuts; and the
\* first candidate of the input is below the gate.
C27_Witness ==
    /\ pc = "check"
    /\ Cardinality(Retained) > config.max_sources
    /\ max_sources > config.max_sources
    /\ Len(filtered_evidence.evidence) = config.max_sources

C29_TraceSnapshotsGenerationTime ==
    (pc \in {"assemble", "done"} /\ trace_id # 0) =>
        LET evidence == filtered_evidence.evidence
            citations == RowsOf(db.citations, trace_id)
        IN  /\ Cardinality(citations) = Len(evidence)
            /\ \A i \in 1..Len(evidence) :
                  \E c \in citations :
                      /\ c.citation_number = context[i]
                      /\ c.section_id = evidence[i].section
                      /\ c.relevance_score = evidence[i].relevance_score
            /\ \A a \in RowsOf(db.answers, trace_id) : a.answer_text = answer
            /\ Cardinality(RowsOf(db.answers, trace_id)) = 1

\* C29 witness: the response is assembled with its evidence re-sorted and
\* its marker rewritten, and the stored rows are those of generation time.
C29_Witness ==
    /\ pc = "done"
    /\ trace_id # 0
    /\ response.code = 200
    /\ response.answer # answer
    /\ MarkersIn(answer) # {}
    /\ response.evidence[1].section # filtered_evidence.evidence[1].section
    /\ \A a \in RowsOf(db.answers, trace_id) : a.answer_text = answer

\* The validator was not asked, or its classification call raised.
ValidatorUnavailable ==
    ~validator.enabled \/ ~validator.client \/ validator.reply = "error"

\* C30: scope validation fails open: a query is rejected only on an
\* explicit OUT-OF-SCOPE classification; if the validator is disabled, has
\* no client, or its classification call raises, validate() returns and
\* the pipeline goes on to hybrid search.
C30_ValidationFailsOpen ==
    /\ (stages # <<>> /\ stages[1] = Stage("validate", "out_of_scope")) =>
          /\ validator.enabled
          /\ validator.client
          /\ validator.classification = "OUT-OF-SCOPE"
          /\ Upper(validator.reply) \in {"OUT-OF-SCOPE", "OUT OF SCOPE"}
    /\ (stages # <<>> /\ ValidatorUnavailable) =>
          /\ stages[1] = Stage("validate", "ok")
          /\ Len(stages) = 1 => pc = "search"
    /\ (pc = "validate" /\ (~validator.enabled \/ ~validator.client)) =>
          /\ ENABLED ValidateInScope
          /\ ~ENABLED ValidateOutOfScope

\* C30 witness: the classification call raised and the query stands
\* before hybrid search.
C30_Witness ==
    /\ pc = "search"
    /\ validator.enabled
    /\ validator.client
    /\ validator.reply = "error"
    /\ stages = <<Stage("validate", "ok")>>

====
